---- MODULE Spec2Model ----
(***************************************************************************)
(* kedro-azureml: the layered configuration (kedro_azureml/config.py) and  *)
(* the MLflow model dataset (kedro_azureml/datasets/models.py).            *)
(*                                                                         *)
(* Spec        : a raw document is parsed (KedroAzureMLConfig.parse_obj)   *)
(*               and the resulting resources table is looked up.           *)
(* DatasetSpec : a MlflowModelLoggerDataSet is constructed, saved, loaded  *)
(*               and its logging switch assigned, while the pipeline opens *)
(*               and closes MLflow runs around it.                         *)
(***************************************************************************)
EXTENDS Integers, Sequences, FiniteSets, TLC

VARIABLES
    doc,              \* the raw (untyped) document handed to parse_obj
    stage,            \* "raw" | "parsed" | "failed"
    errors,           \* the field paths of the ValidationError of parse_obj
    config,           \* the validated scalar fields of KedroAzureMLConfig
    resources,        \* azure.resources: the DefaultConfigDict (factory, store)
    parsedStore,      \* history: the items of azure.resources right after parse
    results,          \* history: per key, the calls of resources[key] so far
    dsStage,          \* "new" | "ready" | "failed": MlflowModelLoggerDataSet(...)
    ds,               \* the attributes of the constructed dataset
    active,           \* mlflow.active_run(): its run id, or None
    autoRuns,         \* the runs mlflow has started on its own so far
    last              \* history: the latest operation, what it saw and did

configVars == <<doc, stage, errors, config, resources, parsedStore, results>>
dsVars == <<dsStage, ds, active, autoRuns, last>>

-----------------------------------------------------------------------------
(* Bounds *)

\* resources[key] is called at most MaxCalls times per key
MaxCalls == 2

\* log_model opens a run of its own at most MaxAutoRuns times
MaxAutoRuns == 2

-----------------------------------------------------------------------------
(* Raw document values: what yaml.safe_load can hand over for one field    *)

Str(s) == [kind |-> "str", val |-> s]
Absent == [kind |-> "absent", val |-> ""]
ListVal == [kind |-> "list", val |-> ""]

\* Python's None inside validated models
None == "<None>"

DEFAULT_KEY == "__default__"

\* the keys a document may configure, and the keys looked up
DocKeys == {DEFAULT_KEY, "chunky", ""}
LookupKeys == DocKeys \cup {"bar", "x__default__x"}

EmptyDict == [k \in {} |-> None]

Leaf3 == {Str("s"), Absent, ListVal}
Leaf2 == {Str("s"), Absent}
ClusterLeaves == {Str("base-cluster"), Str("{cluster_name}"), Absent, ListVal}

StorageSections ==
    {[kind |-> "map", account_name |-> a, container |-> c] : a \in Leaf3, c \in Leaf2}
    \cup {[kind |-> "absent", account_name |-> Absent, container |-> Absent]}

DockerSections ==
    {[kind |-> "map", image |-> i] : i \in Leaf3}
    \cup {[kind |-> "absent", image |-> Absent]}

ResourceEntries ==
    {[kind |-> "map", cluster_name |-> c] : c \in {Str("A"), Str("B"), Absent}}

ResourceSections ==
    {[kind |-> "map", items |-> f] :
        f \in UNION {[S -> ResourceEntries] : S \in SUBSET DocKeys}}
    \cup {[kind |-> k, items |-> EmptyDict] : k \in {"absent", "none", "list"}}

AzureSections ==
    {[kind |-> "map", experiment_name |-> e, workspace_name |-> w,
      resource_group |-> g, cluster_name |-> c, temporary_storage |-> t,
      resources |-> r] :
        e \in Leaf2, w \in Leaf2, g \in Leaf2, c \in ClusterLeaves,
        t \in StorageSections, r \in ResourceSections}
    \cup {[kind |-> "absent", experiment_name |-> Absent, workspace_name |-> Absent,
           resource_group |-> Absent, cluster_name |-> Absent,
           temporary_storage |-> [kind |-> "absent", account_name |-> Absent,
                                  container |-> Absent],
           resources |-> [kind |-> "absent", items |-> EmptyDict]]}

\* CONFIG_TEMPLATE_YAML, as yaml.safe_load returns it
TemplateDocument ==
    [azure |->
        [kind |-> "map",
         cluster_name |-> Str("{cluster_name}"),
         experiment_name |-> Str("{experiment_name}"),
         resource_group |-> Str("{resource_group}"),
         workspace_name |-> Str("{workspace_name}"),
         temporary_storage |->
            [kind |-> "map", account_name |-> Str("{storage_account_name}"),
             container |-> Str("{storage_container}")],
         resources |->
            [kind |-> "map",
             items |-> [k \in {DEFAULT_KEY, "chunky"} |->
                          IF k = DEFAULT_KEY
                          THEN [kind |-> "map", cluster_name |-> Str("{cluster_name}")]
                          ELSE [kind |-> "map", cluster_name |-> Str("chunky-cpu-cluster")]]]],
     docker |-> [kind |-> "map", image |-> Str("{docker_image}")]]

Documents ==
    {[azure |-> a, docker |-> d] : a \in AzureSections, d \in DockerSections}
    \cup {TemplateDocument}

-----------------------------------------------------------------------------
(* Validation: the pydantic models of config.py                            *)

\* a field declared `name: str`
StrErrors(v, path) == IF v.kind = "str" THEN {} ELSE {path}

\* class DockerConfig: image: str
DockerConfigErrors(sec, path) ==
    IF sec.kind # "map" THEN {path}
    ELSE StrErrors(sec.image, path \o <<"image">>)

\* class AzureTempStorageConfig: account_name: str, container: str
AzureTempStorageConfigBroken(sec, path) ==
    IF sec.kind # "map" THEN {path}
    ELSE StrErrors(sec.container, path \o <<"container">>)

AzureTempStorageConfigErrors(sec, path) ==
    IF sec.kind # "map" THEN {path}
    ELSE StrErrors(sec.account_name, path \o <<"account_name">>)
         \cup StrErrors(sec.container, path \o <<"container">>)

\* class ResourceConfig: cluster_name: str
ResourceConfigErrors(sec, path) ==
    IF sec.kind # "map" THEN {path}
    ELSE StrErrors(sec.cluster_name, path \o <<"cluster_name">>)

\* resources: Optional[Dict[str, ResourceConfig]]
ResourcesErrors(sec, path) ==
    IF sec.kind \in {"absent", "none"} THEN {}
    ELSE IF sec.kind # "map" THEN {path}
    ELSE UNION {ResourceConfigErrors(sec.items[k], path \o <<k>>) : k \in DOMAIN sec.items}

\* class AzureMLConfig: the six declared fields
AzureMLConfigErrors(sec, path) ==
    IF sec.kind # "map" THEN {path}
    ELSE StrErrors(sec.experiment_name, path \o <<"experiment_name">>)
         \cup StrErrors(sec.workspace_name, path \o <<"workspace_name">>)
         \cup StrErrors(sec.resource_group, path \o <<"resource_group">>)
         \cup StrErrors(sec.cluster_name, path \o <<"cluster_name">>)
         \cup AzureTempStorageConfigErrors(sec.temporary_storage,
                                           path \o <<"temporary_storage">>)
         \cup ResourcesErrors(sec.resources, path \o <<"resources">>)

\* class KedroAzureMLConfig: azure: AzureMLConfig, docker: DockerConfig
KedroAzureMLConfigErrors(d) ==
    AzureMLConfigErrors(d.azure, <<"azure">>)
    \cup DockerConfigErrors(d.docker, <<"docker">>)

\* ResourceConfig(cluster_name=...)
ResourceConfig(name) == [cluster_name |-> name]

\* the value the "resources" validator receives: None, or the validated dict
ResourcesValue(sec) ==
    IF sec.kind = "map"
    THEN [isNone |-> FALSE,
          items |-> [k \in DOMAIN sec.items |-> ResourceConfig(sec.items[k].cluster_name.val)]]
    ELSE [isNone |-> TRUE, items |-> EmptyDict]

\* `value or {}`
ValueOrEmpty(value) ==
    IF value.isNone \/ DOMAIN value.items = {} THEN EmptyDict ELSE value.items

\* AzureMLConfig._create_default_dict_with, with a plain dict built instead
CreateDefaultDictWithPlainDict(value, default) ==
    [factory |-> [set |-> FALSE, value |-> default], store |-> ValueOrEmpty(value)]

\* AzureMLConfig._create_default_dict_with
CreateDefaultDictWith(value, default) ==
    LET v == ValueOrEmpty(value)
        default_value == IF DEFAULT_KEY \in DOMAIN v THEN v[DEFAULT_KEY] ELSE default
    IN  [factory |-> [set |-> TRUE, value |-> default_value], store |-> v]

\* AzureMLConfig._validate_resources
ValidateResources(value) ==
    CreateDefaultDictWith(value, ResourceConfig("{cluster_name}"))

NoConfig ==
    [experiment_name |-> None, workspace_name |-> None, resource_group |-> None,
     cluster_name |-> None, account_name |-> None, container |-> None,
     image |-> None]

NoResources == [factory |-> [set |-> FALSE, value |-> ResourceConfig(None)],
                store |-> EmptyDict]

\* the scalar fields of a validated KedroAzureMLConfig
ConfigOf(d) ==
    [experiment_name |-> d.azure.experiment_name.val,
     workspace_name |-> d.azure.workspace_name.val,
     resource_group |-> d.azure.resource_group.val,
     cluster_name |-> d.azure.cluster_name.val,
     account_name |-> d.azure.temporary_storage.account_name.val,
     container |-> d.azure.temporary_storage.container.val,
     image |-> d.docker.image.val]

-----------------------------------------------------------------------------
(* Lookup: DefaultConfigDict.__getitem__                                   *)

\* BaseModel.dict(exclude_none=True)
DictExcludeNone(m) == [f \in {g \in DOMAIN m : m[g] # None} |-> m[f]]

\* BaseModel.copy that drops the update
ModelCopyNoUpdate(m, update) == m

\* BaseModel.copy(update=...)
ModelCopy(m, update) ==
    [f \in DOMAIN m \cup DOMAIN update |-> IF f \in DOMAIN update THEN update[f] ELSE m[f]]

\* truth value of a BaseModel instance (no __bool__, no __len__)
ModelTruthy(m) == TRUE

\* a missing-key hook that stores a record other than the one it returns
DefaultDictGetItemStale(dd, key) ==
    IF key \in DOMAIN dd.store
    THEN [raised |-> FALSE, value |-> dd.store[key], store |-> dd.store]
    ELSE [raised |-> FALSE, value |-> dd.factory.value,
          store |-> [k \in DOMAIN dd.store \cup {key} |->
                        IF k = key THEN ResourceConfig(key) ELSE dd.store[k]]]

\* defaultdict.__getitem__ / __missing__: a miss stores default_factory()
DefaultDictGetItem(dd, key) ==
    IF key \in DOMAIN dd.store
    THEN [raised |-> FALSE, value |-> dd.store[key], store |-> dd.store]
    ELSE IF ~dd.factory.set
    THEN [raised |-> TRUE, value |-> ResourceConfig(None), store |-> dd.store]
    ELSE [raised |-> FALSE, value |-> dd.factory.value,
          store |-> [k \in DOMAIN dd.store \cup {key} |->
                        IF k = key THEN dd.factory.value ELSE dd.store[k]]]

\* DefaultConfigDict.__getitem__
DefaultConfigDictGetItem(dd, key) ==
    LET d == DefaultDictGetItem(dd, DEFAULT_KEY) IN
    IF d.raised THEN d
    ELSE LET t == DefaultDictGetItem([dd EXCEPT !.store = d.store], key) IN
         IF t.raised THEN t
         ELSE [raised |-> FALSE,
               value |-> IF ModelTruthy(d.value)
                         THEN ModelCopy(d.value, DictExcludeNone(t.value))
                         ELSE t.value,
               store |-> t.store]

-----------------------------------------------------------------------------
(* The configuration machine                                               *)

NoCall == [calls |-> 0, raised |-> FALSE,
           first |-> ResourceConfig(None), last |-> ResourceConfig(None)]

ConfigInit ==
    /\ doc \in Documents
    /\ stage = "raw"
    /\ errors = {}
    /\ config = NoConfig
    /\ resources = NoResources
    /\ parsedStore = EmptyDict
    /\ results = [k \in LookupKeys |-> NoCall]

\* KedroAzureMLConfig.parse_obj(doc)
Parse ==
    /\ stage = "raw"
    /\ LET errs == KedroAzureMLConfigErrors(doc) IN
       IF errs # {}
       THEN /\ stage' = "failed"
            /\ errors' = errs
            /\ UNCHANGED <<config, resources, parsedStore>>
       ELSE /\ stage' = "parsed"
            /\ errors' = {}
            /\ config' = ConfigOf(doc)
            /\ resources' = ValidateResources(ResourcesValue(doc.azure.resources))
            /\ parsedStore' = resources'.store
    /\ UNCHANGED <<doc, results>>
    /\ UNCHANGED dsVars

\* config.azure.resources[key]
Resolve(key) ==
    /\ stage = "parsed"
    /\ results[key].calls < MaxCalls
    /\ LET r == DefaultConfigDictGetItem(resources, key) IN
       /\ resources' = [resources EXCEPT !.store = r.store]
       /\ results' = [results EXCEPT ![key] =
                        [calls |-> @.calls + 1,
                         raised |-> @.raised \/ r.raised,
                         first |-> IF @.calls = 0 THEN r.value ELSE @.first,
                         last |-> r.value]]
    /\ UNCHANGED <<doc, stage, errors, config, parsedStore>>
    /\ UNCHANGED dsVars

ConfigNext ==
    \/ Parse
    \/ \E key \in LookupKeys : Resolve(key)


-----------------------------------------------------------------------------
(* Python values of the dataset                                            *)

\* truth value of an Optional[str]
Truthy(x) == x # None /\ x # ""

\* str(x) inside an f-string
PyStr(x) == IF x = None THEN "None" ELSE x

\* a dict argument: None, or the items
NoneArg == [isNone |-> TRUE, items |-> EmptyDict]
DictArg(d) == [isNone |-> FALSE, items |-> d]

\* `arg or {}`
ArgOrEmpty(arg) == IF arg.isNone THEN EmptyDict ELSE arg.items

\* d[key] = value
DictSet(d, key, value) ==
    [k \in DOMAIN d \cup {key} |-> IF k = key THEN value ELSE d[k]]

\* d.pop(key, None)
DictPop(d, key) == [k \in DOMAIN d \ {key} |-> d[k]]

\* a value with its Python type
PyBool(b) == [type |-> "bool", repr |-> IF b THEN "True" ELSE "False"]
FlagValues ==
    {PyBool(TRUE), PyBool(FALSE), [type |-> "int", repr |-> "1"],
     [type |-> "int", repr |-> "0"], [type |-> "NoneType", repr |-> "None"],
     [type |-> "str", repr |-> "False"]}

PYFUNC == "mlflow.pyfunc"
Flavors == {PYFUNC, "mlflow.sklearn", "no.such.flavor"}
\* the modules find_spec finds
ImportableModules == {PYFUNC, "mlflow.sklearn"}
Workflows == {None, "python_model", "loader_module", "model"}
RunIdArgs == {None, "", "run-1"}
ArtifactPaths == {"model", None}
LoadArgs == {NoneArg, DictArg([k \in {"dst_path"} |-> "/tmp"])}
SaveArgs ==
    {NoneArg,
     DictArg([k \in {"artifact_path", "conda_env"} |-> "x"]),
     DictArg([k \in {"conda_env"} |-> "x"])}
Models == {"model-1", "model-2"}
PipelineRuns == {"run-1", "run-2"}

CtorArgs ==
    [flavor : Flavors, pyfunc_workflow : Workflows, run_id : RunIdArgs,
     artifact_path : ArtifactPaths, load_args : LoadArgs, save_args : SaveArgs]

NoArgs ==
    [flavor |-> None, pyfunc_workflow |-> None, run_id |-> None,
     artifact_path |-> None, load_args |-> NoneArg, save_args |-> NoneArg]

NoDataset ==
    [flavor |-> None, pyfunc_workflow |-> None, logging_activated |-> PyBool(FALSE),
     run_id |-> None, artifact_path |-> None, load_args |-> EmptyDict,
     save_args |-> EmptyDict]

-----------------------------------------------------------------------------
(* MlflowAbstractModelDataSet                                              *)

\* _logging_activated.setter
SetLoggingActivated(d, flag) ==
    IF flag.type # "bool"
    THEN [raised |-> "ValueError", obj |-> d]
    ELSE [raised |-> "", obj |-> [d EXCEPT !.logging_activated = flag]]

\* `if self._logging_activated:`
LoggingActivated(d) == d.logging_activated.repr = "True"

\* _import_module / _mlflow_model_module: does importing the flavor raise
ImportModuleRaises(import_path) == import_path \notin ImportableModules

\* the pyfunc check of __init__, with None let through
PyfuncWorkflowRejectedLax(flavor, pyfunc_workflow) ==
    flavor = PYFUNC /\ pyfunc_workflow \notin {None, "python_model", "loader_module"}

\* the pyfunc check of __init__
PyfuncWorkflowRejected(flavor, pyfunc_workflow) ==
    flavor = PYFUNC /\ pyfunc_workflow \notin {"python_model", "loader_module"}

\* MlflowAbstractModelDataSet.__init__
AbstractInit(a) ==
    LET d0 == [NoDataset EXCEPT !.flavor = a.flavor,
                                !.pyfunc_workflow = a.pyfunc_workflow]
        d1 == SetLoggingActivated(d0, PyBool(TRUE)).obj
        d2 == [d1 EXCEPT !.load_args = ArgOrEmpty(a.load_args),
                         !.save_args = ArgOrEmpty(a.save_args)]
    IN  IF PyfuncWorkflowRejected(a.flavor, a.pyfunc_workflow)
        THEN [raised |-> "DataSetError", reason |-> "pyfunc_workflow", obj |-> d1]
        ELSE IF ImportModuleRaises(a.flavor)
        THEN [raised |-> "DataSetError", reason |-> "import", obj |-> d2]
        ELSE [raised |-> "", reason |-> "", obj |-> d2]

\* MlflowModelLoggerDataSet.__init__
LoggerInit(a) ==
    LET r == AbstractInit(a) IN
    IF r.raised # "" THEN r
    ELSE [r EXCEPT !.obj = [r.obj EXCEPT !.run_id = a.run_id,
                                         !.artifact_path = a.artifact_path,
                                         !.save_args = DictPop(@, "artifact_path")]]

-----------------------------------------------------------------------------
(* MlflowModelLoggerDataSet: model_uri, _load, _save, _describe            *)

\* model_uri with the active run taking precedence
ModelUriActiveFirst(d, act) ==
    LET run_id == IF act # None THEN act
                  ELSE IF Truthy(d.run_id) THEN d.run_id ELSE None
    IN  IF run_id = None
        THEN [raised |-> "DataSetError", value |-> ""]
        ELSE [raised |-> "", value |-> "runs:/" \o run_id \o "/" \o PyStr(d.artifact_path)]

\* the model_uri property
ModelUri(d, act) ==
    LET run_id == IF Truthy(d.run_id) THEN d.run_id
                  ELSE IF act # None THEN act ELSE None
    IN  IF run_id = None
        THEN [raised |-> "DataSetError", value |-> ""]
        ELSE [raised |-> "", value |-> "runs:/" \o run_id \o "/" \o PyStr(d.artifact_path)]

\* the id of the run mlflow starts on its own
AutoId(n) == "auto-" \o ToString(n + 1)

Event(op, run, model, path) ==
    [op |-> op, run |-> run, model |-> model, artifact_path |-> path]

\* <flavor>.log_model(...): logs into the active run, or into a run it
\* starts and leaves active; `outcome` is "ok", or where it fails
LogModel(act, auto, model, path, outcome) ==
    LET started == act = None /\ outcome # "fails-before-run"
        run == IF act # None THEN act ELSE IF started THEN AutoId(auto) ELSE None
    IN  [raised |-> IF outcome = "ok" THEN "" ELSE "MlflowException",
         trace |-> <<Event("log_model", run, model, path)>>,
         active |-> run,
         auto |-> IF started THEN auto + 1 ELSE auto]

LogOutcomes == {"ok", "fails-before-run", "fails-in-run"}

\* _save_model_in_run that logs whatever the switch says
SaveModelInRunAlwaysLogs(d, act, auto, model, outcome) ==
    LET d1 == IF d.flavor = PYFUNC
              THEN [d EXCEPT !.save_args = DictSet(@, d.pyfunc_workflow, model)]
              ELSE d
        l == LogModel(act, auto, model, d1.artifact_path, outcome)
    IN  [raised |-> l.raised, trace |-> l.trace, active |-> l.active,
         auto |-> l.auto, obj |-> d1]

\* _save_model_in_run
SaveModelInRun(d, act, auto, model, outcome) ==
    LET d1 == IF d.flavor = PYFUNC
              THEN [d EXCEPT !.save_args = DictSet(@, d.pyfunc_workflow, model)]
              ELSE d
        logged == IF d1.flavor = PYFUNC THEN d1.save_args[d1.pyfunc_workflow] ELSE model
        l == LogModel(act, auto, logged, d1.artifact_path, outcome)
    IN  IF LoggingActivated(d1)
        THEN [raised |-> l.raised, trace |-> l.trace, active |-> l.active,
              auto |-> l.auto, obj |-> d1]
        ELSE [raised |-> "", trace |-> <<>>, active |-> act, auto |-> auto, obj |-> d1]

\* _save that leaves the run it opened active
SaveKeepsRunOpen(d, act, auto, model, outcome) ==
    IF Truthy(d.run_id) /\ act = None
    THEN LET r == SaveModelInRun(d, d.run_id, auto, model, outcome) IN
         [r EXCEPT !.trace = <<Event("start_run", d.run_id, None, None)>> \o r.trace]
    ELSE SaveModelInRun(d, act, auto, model, outcome)

\* _save
Save(d, act, auto, model, outcome) ==
    IF Truthy(d.run_id)
    THEN IF act # None
         THEN [raised |-> "DataSetError", trace |-> <<>>, active |-> act,
               auto |-> auto, obj |-> d]
         ELSE \* with mlflow.start_run(run_id=self._run_id): ...
              LET r == SaveModelInRun(d, d.run_id, auto, model, outcome) IN
              [r EXCEPT !.trace = <<Event("start_run", d.run_id, None, None)>>
                                  \o r.trace
                                  \o <<Event("end_run", r.active, None, None)>>,
                        !.active = None]
    ELSE SaveModelInRun(d, act, auto, model, outcome)

\* _load: load_model(model_uri=self.model_uri, **self._load_args)
Load(d, act, ok) ==
    LET u == ModelUri(d, act) IN
    IF u.raised # "" THEN u
    ELSE [raised |-> IF ok THEN "" ELSE "MlflowException", value |-> u.value]

\* _describe
Describe(d) ==
    [flavor |-> d.flavor, run_id |-> d.run_id, artifact_path |-> d.artifact_path,
     pyfunc_workflow |-> d.pyfunc_workflow, load_args |-> d.load_args,
     save_args |-> d.save_args]

-----------------------------------------------------------------------------
(* The dataset machine                                                     *)

Op(op, args, preDs, preActive, raised, reason, trace, value, model) ==
    [op |-> op, args |-> args, pre_ds |-> preDs, pre_active |-> preActive,
     raised |-> raised, reason |-> reason, trace |-> trace, value |-> value,
     model |-> model]

NoOp == Op("", NoArgs, NoDataset, None, "", "", <<>>, "", None)

DatasetInit ==
    /\ dsStage = "new"
    /\ ds = NoDataset
    /\ active = None
    /\ autoRuns = 0
    /\ last = NoOp

\* MlflowModelLoggerDataSet(flavor, run_id, artifact_path, ...)
Construct(a) ==
    /\ dsStage = "new"
    /\ LET r == LoggerInit(a) IN
       /\ dsStage' = IF r.raised = "" THEN "ready" ELSE "failed"
       /\ ds' = IF r.raised = "" THEN r.obj ELSE NoDataset
       /\ last' = Op("init", a, NoDataset, active, r.raised, r.reason, <<>>, "", None)
    /\ UNCHANGED <<active, autoRuns>>
    /\ UNCHANGED configVars

\* the pipeline opens a run: mlflow.start_run()
PipelineStartRun(run) ==
    /\ active = None
    /\ active' = run
    /\ last' = Op("start_run", NoArgs, ds, active, "", "", <<>>, "", None)
    /\ UNCHANGED <<dsStage, ds, autoRuns>>
    /\ UNCHANGED configVars

\* the pipeline closes the active run: mlflow.end_run()
PipelineEndRun ==
    /\ active # None
    /\ active' = None
    /\ last' = Op("end_run", NoArgs, ds, active, "", "", <<>>, "", None)
    /\ UNCHANGED <<dsStage, ds, autoRuns>>
    /\ UNCHANGED configVars

\* dataset._logging_activated = flag
AssignLoggingActivated(flag) ==
    /\ dsStage = "ready"
    /\ LET r == SetLoggingActivated(ds, flag) IN
       /\ ds' = r.obj
       /\ last' = Op("set_logging", NoArgs, ds, active, r.raised, "", <<>>,
                     flag.type, None)
    /\ UNCHANGED <<dsStage, active, autoRuns>>
    /\ UNCHANGED configVars

\* dataset.model_uri
ReadModelUri ==
    /\ dsStage = "ready"
    /\ LET r == ModelUri(ds, active) IN
       last' = Op("model_uri", NoArgs, ds, active, r.raised, "", <<>>, r.value, None)
    /\ UNCHANGED <<dsStage, ds, active, autoRuns>>
    /\ UNCHANGED configVars

\* dataset._load()
DoLoad ==
    /\ dsStage = "ready"
    /\ \E ok \in BOOLEAN :
          LET r == Load(ds, active, ok) IN
          last' = Op("load", NoArgs, ds, active, r.raised, "", <<>>, r.value, None)
    /\ UNCHANGED <<dsStage, ds, active, autoRuns>>
    /\ UNCHANGED configVars

\* dataset._save(model)
DoSave(model) ==
    /\ dsStage = "ready"
    /\ \E outcome \in LogOutcomes :
          LET r == Save(ds, active, autoRuns, model, outcome) IN
          /\ r.auto <= MaxAutoRuns
          /\ ds' = r.obj
          /\ active' = r.active
          /\ autoRuns' = r.auto
          /\ last' = Op("save", NoArgs, ds, active, r.raised, "", r.trace, "", model)
    /\ UNCHANGED dsStage
    /\ UNCHANGED configVars

DatasetNext ==
    \/ \E a \in CtorArgs : Construct(a)
    \/ \E run \in PipelineRuns : PipelineStartRun(run)
    \/ PipelineEndRun
    \/ \E flag \in FlagValues : AssignLoggingActivated(flag)
    \/ ReadModelUri
    \/ DoLoad
    \/ \E model \in Models : DoSave(model)

-----------------------------------------------------------------------------
(* Specifications                                                          *)

vars == <<configVars, dsVars>>

\* the configuration is parsed and looked up; no dataset exists
Init == ConfigInit /\ DatasetInit
Next == ConfigNext
Spec == Init /\ [][Next]_vars

\* a dataset is used; the configuration is the unparsed template
DatasetSpecInit ==
    /\ DatasetInit
    /\ doc = TemplateDocument
    /\ stage = "raw"
    /\ errors = {}
    /\ config = NoConfig
    /\ resources = NoResources
    /\ parsedStore = EmptyDict
    /\ results = [k \in LookupKeys |-> NoCall]

DatasetSpec == DatasetSpecInit /\ [][DatasetNext]_vars

-----------------------------------------------------------------------------
(* Claims about the configuration                                          *)

\* the document configures `key` under azure.resources
Configured(key) ==
    doc.azure.resources.kind = "map" /\ key \in DOMAIN doc.azure.resources.items

\* the record the document gives for a configured key
DocRecord(key) == [cluster_name |-> doc.azure.resources.items[key].cluster_name.val]

\* the table's default record: the document's __default__ entry, else the
\* record the table was built with
TableDefault ==
    IF Configured(DEFAULT_KEY) THEN DocRecord(DEFAULT_KEY) ELSE resources.factory.value

\* C1: when the document has no resources.__default__ entry, the default
\* record returned for "__default__" and for every unconfigured key carries
\* the document's root-level cluster_name.
C1_DefaultFromRootCluster ==
    (stage = "parsed" /\ ~Configured(DEFAULT_KEY)) =>
        \A k \in LookupKeys :
            (results[k].calls > 0 /\ ~Configured(k)) =>
                results[k].last.cluster_name = doc.azure.cluster_name.val

\* C2: resolve("__default__") returns the default record D, a configured key
\* returns D overridden by the fields its record sets, an unconfigured key
\* returns D; for the first and for every later lookup.
C2_OverridePrecedence ==
    stage = "parsed" =>
        \A k \in LookupKeys :
            results[k].calls > 0 =>
                LET D == TableDefault
                    expected ==
                        IF k # DEFAULT_KEY /\ Configured(k)
                        THEN [f \in DOMAIN D |->
                                IF f \in DOMAIN DocRecord(k) /\ DocRecord(k)[f] # None
                                THEN DocRecord(k)[f] ELSE D[f]]
                        ELSE D
                IN  /\ ~results[k].raised
                    /\ results[k].first = expected
                    /\ results[k].last = expected

C2_Witness ==
    /\ stage = "parsed"
    /\ Configured(DEFAULT_KEY) /\ DocRecord(DEFAULT_KEY).cluster_name = "A"
    /\ Configured("chunky") /\ DocRecord("chunky").cluster_name = "B"
    /\ results["bar"].calls = MaxCalls /\ results["bar"].last.cluster_name = "A"
    /\ results["chunky"].calls = MaxCalls /\ results["chunky"].last.cluster_name = "B"
    /\ results[DEFAULT_KEY].calls > 0

\* C3: lookups leave the table as parse built it: the same keys and the same
\* record under each key.
C3_ResolveReadOnly ==
    stage = "parsed" => resources.store = parsedStore

\* C4: on a parsed configuration no lookup raises, whatever the key, and each
\* returns a ResourceConfig whose cluster_name is set.
C4_UnknownKeySafety ==
    stage = "parsed" =>
        \A k \in LookupKeys :
            results[k].calls > 0 =>
                /\ ~results[k].raised
                /\ DOMAIN results[k].last = {"cluster_name"}
                /\ results[k].last.cluster_name # None
                /\ results[k].first.cluster_name # None

C4_Witness ==
    /\ stage = "parsed"
    /\ doc.azure.resources.kind = "absent"
    /\ results[""].calls > 0
    /\ results["x__default__x"].calls > 0
    /\ results["bar"].calls = MaxCalls
    /\ \A k \in {"", "x__default__x", "bar"} : ~results[k].raised

\* C5: the lookups of one key all return equal records, whatever lookups
\* happened in between: the record is the one a lookup on the table as parsed
\* returns.
C5_Idempotence ==
    stage = "parsed" =>
        \A k \in LookupKeys :
            results[k].calls > 0 =>
                /\ results[k].last = results[k].first
                /\ results[k].last =
                     DefaultConfigDictGetItem([resources EXCEPT !.store = parsedStore], k).value

C5_Witness ==
    /\ stage = "parsed"
    /\ ~Configured("bar") /\ results["bar"].calls = MaxCalls
    /\ Configured("chunky") /\ results["chunky"].calls = MaxCalls
    /\ results[""].calls > 0
    /\ results["bar"].last = results["bar"].first
    /\ "bar" \in DOMAIN resources.store

\* the required fields of the document that are missing or of the wrong shape
Offending ==
    LET az == doc.azure
        ts == az.temporary_storage
        rs == az.resources
    IN  {p \in {<<"azure">>, <<"docker">>} :
            (IF p = <<"azure">> THEN az.kind ELSE doc.docker.kind) # "map"}
        \cup (IF doc.docker.kind = "map" /\ doc.docker.image.kind # "str"
              THEN {<<"docker", "image">>} ELSE {})
        \cup (IF az.kind # "map" THEN {}
              ELSE {<<"azure", f>> : f \in
                       {g \in {"experiment_name", "workspace_name",
                               "resource_group", "cluster_name"} :
                            az[g].kind # "str"}}
                   \cup (IF ts.kind # "map" THEN {<<"azure", "temporary_storage">>}
                         ELSE {<<"azure", "temporary_storage", f>> : f \in
                                 {g \in {"account_name", "container"} :
                                      ts[g].kind # "str"}})
                   \cup (IF rs.kind = "list" THEN {<<"azure", "resources">>}
                         ELSE {<<"azure", "resources", k, "cluster_name">> : k \in
                                 {j \in DOMAIN rs.items :
                                      rs.items[j].cluster_name.kind # "str"}}))

-----------------------------------------------------------------------------
(* Claims about the model dataset                                          *)

\* the constructor arguments ask for a pyfunc model without a valid workflow
BadPyfuncArgs(a) ==
    a.flavor = PYFUNC /\ a.pyfunc_workflow \notin {"python_model", "loader_module"}

\* C7 as stated: constructing a "mlflow.pyfunc" dataset whose pyfunc_workflow
\* is not python_model or loader_module raises a ValidationError and yields
\* no dataset; otherwise the workflow check rejects nothing.
C7_BadWorkflowRaisesValidationError ==
    last.op = "init" =>
        /\ BadPyfuncArgs(last.args) =>
              last.raised = "ValidationError" /\ dsStage = "failed" /\ ds = NoDataset
        /\ ~BadPyfuncArgs(last.args) => last.reason # "pyfunc_workflow"

\* C7 amended: the construction raises a DataSetError (not a ValidationError)
\* and yields no dataset; otherwise the workflow check rejects nothing and
\* the construction succeeds exactly when the flavor module can be imported.
C7_BadWorkflowRaisesDataSetError ==
    last.op = "init" =>
        /\ BadPyfuncArgs(last.args) =>
              /\ last.raised = "DataSetError" /\ last.reason = "pyfunc_workflow"
              /\ dsStage = "failed" /\ ds = NoDataset
        /\ ~BadPyfuncArgs(last.args) =>
              /\ last.reason # "pyfunc_workflow"
              /\ dsStage = "ready" <=> last.args.flavor \in ImportableModules
              /\ dsStage = "ready" => last.raised = ""

C7_Witness ==
    /\ last.op = "init"
    /\ last.args.flavor = PYFUNC /\ last.args.pyfunc_workflow = None
    /\ last.raised = "DataSetError"
    /\ dsStage = "failed"

\* the three cases of _save, by what the save saw
SaveRejected == Truthy(last.pre_ds.run_id) /\ last.pre_active # None
SaveInOwnRun == Truthy(last.pre_ds.run_id) /\ last.pre_active = None
SaveInActiveRun == ~Truthy(last.pre_ds.run_id)

StartOf(d) == Event("start_run", d.run_id, None, None)
EndOf(d) == Event("end_run", d.run_id, None, None)
LogIn(run, d) == Event("log_model", run, last.model, d.artifact_path)

\* C8 as stated: (1) run_id and an active run: DataSetError, nothing logged,
\* no run started or ended; (2) run_id and no active run: the run run_id is
\* opened, the model logged inside it, the run closed again whether or not
\* the save raises; (3) no run_id: the model is logged and the save opens and
\* closes no run itself.
C8_SaveProtocol ==
    last.op = "save" =>
        LET d == last.pre_ds IN
        /\ SaveRejected =>
              /\ last.raised = "DataSetError" /\ last.trace = <<>>
              /\ active = last.pre_active /\ ds = d
        /\ SaveInOwnRun =>
              /\ last.trace = <<StartOf(d), LogIn(d.run_id, d), EndOf(d)>>
              /\ active = None
        /\ SaveInActiveRun =>
              /\ Len(last.trace) = 1
              /\ last.trace[1].op = "log_model"
              /\ last.trace[1].model = last.model
              /\ last.pre_active # None =>
                    last.trace[1].run = last.pre_active /\ active = last.pre_active

\* C8 amended: as stated while _logging_activated is True; while it is False
\* case (2) still opens and closes the run run_id but logs nothing, and case
\* (3) logs nothing and leaves the active run as it was.
C8_SaveProtocolUnderSwitch ==
    last.op = "save" =>
        LET d == last.pre_ds
            on == LoggingActivated(d)
        IN
        /\ SaveRejected =>
              /\ last.raised = "DataSetError" /\ last.trace = <<>>
              /\ active = last.pre_active /\ ds = d
        /\ SaveInOwnRun =>
              /\ on => last.trace = <<StartOf(d), LogIn(d.run_id, d), EndOf(d)>>
              /\ ~on => last.trace = <<StartOf(d), EndOf(d)>> /\ last.raised = ""
              /\ active = None
        /\ SaveInActiveRun =>
              /\ on => /\ Len(last.trace) = 1
                       /\ last.trace[1].op = "log_model"
                       /\ last.trace[1].model = last.model
                       /\ last.pre_active # None =>
                             last.trace[1].run = last.pre_active
                             /\ active = last.pre_active
              /\ ~on => last.trace = <<>> /\ active = last.pre_active /\ last.raised = ""

C8_Witness ==
    /\ last.op = "save"
    /\ last.pre_ds.run_id = "run-1" /\ last.pre_active = None
    /\ LoggingActivated(last.pre_ds)
    /\ last.raised = "MlflowException"
    /\ Len(last.trace) = 3 /\ last.trace[2].run = "run-1"
    /\ active = None

Described(d) ==
    [f \in {"flavor", "run_id", "artifact_path", "load_args", "save_args"} |->
        Describe(d)[f]]

\* the switch is a bool, True after construction, and a non-bool assignment
\* raises ValueError and changes nothing; with the switch off no save logs
SwitchIsBoolAndGuardsLogging ==
    /\ dsStage = "ready" => ds.logging_activated.type = "bool"
    /\ (last.op = "init" /\ dsStage = "ready") => ds.logging_activated = PyBool(TRUE)
    /\ (last.op = "set_logging" /\ last.value # "bool") =>
          last.raised = "ValueError" /\ ds = last.pre_ds
    /\ (last.op = "set_logging" /\ last.value = "bool") => last.raised = ""
    /\ (last.op = "save" /\ ~LoggingActivated(last.pre_ds)) =>
          /\ \A i \in 1..Len(last.trace) : last.trace[i].op # "log_model"
          /\ ds.logging_activated = last.pre_ds.logging_activated

\* C10 as stated: the switch is a bool in every state (True after
\* construction, a non-bool assignment raises ValueError and changes nothing);
\* with the switch off no save calls log_model, and such a save leaves
\* flavor, run_id, artifact_path, load_args and save_args as they were.
C10_LoggingSwitch ==
    /\ SwitchIsBoolAndGuardsLogging
    /\ (last.op = "save" /\ ~LoggingActivated(last.pre_ds)) =>
          Described(ds) = Described(last.pre_ds)

\* C10 amended: ... such a save leaves flavor, run_id, artifact_path and
\* load_args as they were, and save_args too unless the flavor is
\* "mlflow.pyfunc" and the save is not rejected: then save_args holds the
\* saved model under the pyfunc_workflow key.
C10_LoggingSwitchPyfuncKeepsModel ==
    /\ SwitchIsBoolAndGuardsLogging
    /\ (last.op = "save" /\ ~LoggingActivated(last.pre_ds)) =>
          LET d == last.pre_ds IN
          /\ \A f \in {"flavor", "run_id", "artifact_path", "load_args"} :
                Described(ds)[f] = Described(d)[f]
          /\ ds.save_args =
                IF d.flavor = PYFUNC /\ ~SaveRejected
                THEN DictSet(d.save_args, d.pyfunc_workflow, last.model)
                ELSE d.save_args

C10_Witness ==
    /\ last.op = "save"
    /\ ~LoggingActivated(last.pre_ds)
    /\ last.pre_ds.flavor = PYFUNC
    /\ last.pre_ds.run_id = "run-1" /\ last.pre_active = None
    /\ last.trace = <<StartOf(ds), EndOf(ds)>>
    /\ ds.save_args # last.pre_ds.save_args

====
